---- MODULE Spec2Model ----
(***************************************************************************)
(* TinySchedule: the Scheduler (persistent one-shot triggers fired by a    *)
(* polling thread) and the Macro engine (recorder and player), modelled    *)
(* from src/TinySchedule.py.                                               *)
(*                                                                         *)
(* The specifications of the module, one per subsystem:                    *)
(*   SchedSpec  Scheduler.add / remove / list_all against Scheduler._loop  *)
(*   StoreSpec  SchedSpec with storage writes that fail, and restarts      *)
(*   RecSpec    the Macro recorder: two listener threads against           *)
(*              start_recording / stop_recording / pause_toggle            *)
(*   PlaySpec   Macro.play against abort_playback and start_recording      *)
(*   FileSpec   Macro.save / Macro.load over macro files                   *)
(* Storage writes succeed outside StoreSpec; the variables of the          *)
(* subsystems a specification does not move keep their initial values.     *)
(***************************************************************************)
EXTENDS Integers, Sequences, FiniteSets, TLC

\* ------------------------------------------------------------------ bounds
MaxTime == 1       \* the wall clock runs 0..MaxTime
MaxCalls == 2      \* API calls made on the Scheduler
MaxClk == 2        \* time.time() runs 1..MaxClk
MaxEvents == 2     \* events one recording captures
MaxLoops == 2      \* the loops argument of play runs 0..MaxLoops
MaxIO == 3         \* Macro.save / Macro.load calls made

\* trigger ids (uuid4 strings in the program) and the absent uid argument
Ids == {"u1", "u2"}
NoUid == "None"
Times == 0..MaxTime
None == [none |-> TRUE]

\* ------------------------------------------------------------------ state
VARIABLES
  \* Scheduler
  _events,    \* Scheduler._events: [kind, recs]; kind "map" is a dict in insertion order
  disk,       \* content of the file at Scheduler._persist_path
  _lock,      \* Scheduler._lock: "free" or "loop" (API calls run whole under it)
  loopPc,     \* position of the _loop thread
  due,        \* _loop's local list `due`
  cur,        \* the trigger _run_event is playing, or None
  now,        \* the wall clock read by Scheduler._now
  \* Scheduler history (not program state)
  calls,      \* number of API calls made
  lastOp,     \* the last API call: [op, uid, found, raised, at]; `at`: made while a fired playback ran
  listed,     \* what list_all returned, when it is the last call made
  used,       \* ids that have ever been keys of the table
  scanned,    \* ids the loop's scan deleted
  cancelled,  \* ids remove() deleted
  played,     \* id -> how many times its playback was started
  lastRun,    \* how the last _run_event ended: skipped, loadfail, played, raised
  owed,       \* ids added past-due by add and still awaiting a scan
  missed,     \* past-due ids that a scan attempt made after add did not hand to `due`
  lost,       \* ids a scan deleted before it raised: never handed to _run_event
  bootDisk,   \* the file content the Scheduler was constructed over
  stored,     \* the file content after the last write that completed
  \* Macro: recorder
  events,     \* Macro.events
  recording,  \* Macro.recording
  paused,     \* Macro.paused
  _last_ts,   \* Macro._last_ts (Unset stands for None)
  listening,  \* the mouse and keyboard listeners are started and not stopped
  clk,        \* time.time()
  cbPc,       \* listener thread -> position inside its callback
  cbNow,      \* listener thread -> _dt's local `now`
  cbDt,       \* listener thread -> the delay _dt returned
  cbKey,      \* listener thread -> the key its notification is about
  \* recorder history
  activeTime, \* clock ticks spent recording and not paused since start_recording
  lastCtl,    \* the recorder call or control-key notification that was the latest step
  tsBy,       \* what last changed _last_ts: a control ("ok"), a callback still running
              \* (its thread), a callback whose event was then recorded ("ok") or dropped
  \* Macro: player
  _stop_flag, \* Macro._stop_flag
  playPc,     \* position of the thread inside play
  loopsLeft,  \* iterations of `for _ in range(...)` not yet started
  playList,   \* the list `for ev in self.events` iterates
  playIdx,    \* index in playList of the next event
  applied,    \* the events the latest play call applied to the input devices, in order
  suppress,   \* play's suppress_hotkeys
  \* player history
  abortSet,   \* abort_playback set the flag during the running play
  escaped,    \* an event passed its check point after abort_playback had set the flag
  playReq,    \* the latest play call: [evs, loops, stale]; `stale`: the flag was set at the call
  \* Macro: files
  mfile,      \* content of the file Macro.save writes
  \* file history
  savedEvs,   \* self.events at the latest Macro.save
  lastIO      \* the latest save/load call: [n, op, raised, own, src, had]

schedVars == <<_events, disk, _lock, loopPc, due, cur, now, calls, lastOp, listed,
               used, scanned, cancelled, played, lastRun, owed, missed, lost, bootDisk,
               stored>>

recVars == <<events, recording, paused, _last_ts, listening, clk, cbPc, cbNow, cbDt,
             cbKey, activeTime, lastCtl, tsBy>>

playVars == <<_stop_flag, playPc, loopsLeft, playList, playIdx, applied, suppress, abortSet,
              escaped, playReq>>

fileVars == <<mfile, savedEvs, lastIO>>

vars == <<schedVars, recVars, playVars, fileVars>>

\* ------------------------------------------------- trigger records and files
\* datetime.isoformat(): the instant as an ISO-8601 string
isoformat(t) == <<"T", t>>
\* a "when" string that is no ISO-8601 timestamp (only a loaded file can hold one)
Garbage == <<"X", 0>>
\* datetime.fromisoformat raises ValueError on anything else
IsIso(s) == s[1] = "T"
fromisoformat(s) == s[2]

\* macro files a trigger may point at: a valid macro, a path with no file, a file
\* whose content json.load rejects
MacroFiles == {"ok.json", "gone.json", "bad.json"}
isfile(p) == p # "gone.json"
MacroLoads(p) == p = "ok.json"

\* the dict literal add() stores
Trigger(uid, when_dt, macro_path) ==
  [id |-> uid, title |-> "Macro", when |-> isoformat(when_dt), macro |-> macro_path,
   speed |-> 1, loops |-> 1]

Range(s) == {s[i] : i \in DOMAIN s}
Keys(tbl) == IF tbl.kind = "map" THEN {e.id : e \in Range(tbl.recs)} ELSE {}
Get(tbl, k) == CHOOSE e \in Range(tbl.recs) : e.id = k

\* self._events[uid] = rec: replaces in place, or appends a new key
Put(recs, rec) ==
  IF \E i \in DOMAIN recs : recs[i].id = rec.id
  THEN [i \in DOMAIN recs |-> IF recs[i].id = rec.id THEN rec ELSE recs[i]]
  ELSE Append(recs, rec)

\* del self._events[k]
DelKey(recs, k) == SelectSeq(recs, LAMBDA e : e.id # k)

\* ------------------------------------------------------------- persistence
\* json.dump(self._events, f): open(path, "w") replaces the file by the dumped table
save(tbl) == [kind |-> tbl.kind, recs |-> tbl.recs]

\* Scheduler.load: any exception (no file, unparseable text) gives {}; whatever
\* json.load returns otherwise becomes the table, mapping or not
load(d) ==
  IF d.kind \in {"missing", "garbage"} THEN [kind |-> "map", recs |-> <<>>]
  ELSE [kind |-> d.kind, recs |-> d.recs]

\* records a persisted file may hold: written by add, or with a malformed "when"
FileRecs ==
  {[id |-> k, title |-> "Macro", when |-> w, macro |-> "ok.json", speed |-> 1, loops |-> 1] :
     k \in Ids, w \in {isoformat(0), Garbage}}

\* file contents a Scheduler may be constructed over
InitialDisks ==
  {[kind |-> "missing", recs |-> <<>>], [kind |-> "garbage", recs |-> <<>>],
   [kind |-> "array", recs |-> <<>>], [kind |-> "map", recs |-> <<>>]}
  \cup {[kind |-> "map", recs |-> <<r>>] : r \in FileRecs}
  \cup {[kind |-> "map", recs |-> <<r, q>>] : r \in {x \in FileRecs : x.id = "u1"},
                                              q \in {x \in FileRecs : x.id = "u2"}}

\* ---------------------------------------------------------------- list_all
\* Python's order on the "when" strings: ISO strings of one format order as their
\* instants do; a string that starts with a letter sorts after every digit string
WhenKey(w) == IF IsIso(w) THEN w[2] ELSE MaxTime + 1

\* list.sort(key=...): stable, so an element goes after the equal keys before it
InsertByWhen(s, e) ==
  LET n == Cardinality({i \in DOMAIN s : WhenKey(s[i].when) <= WhenKey(e.when)})
  IN SubSeq(s, 1, n) \o <<e>> \o SubSeq(s, n + 1, Len(s))

RECURSIVE SortByWhen(_)
SortByWhen(s) ==
  IF s = <<>> THEN <<>>
  ELSE InsertByWhen(SortByWhen(SubSeq(s, 1, Len(s) - 1)), s[Len(s)])

\* --------------------------------------------------------- the loop's scan
\* for k, e in list(self._events.items()): the snapshot `items` is walked in
\* insertion order; fromisoformat raising ends the walk with the deletions made so
\* far kept in memory
RECURSIVE ScanFrom(_, _, _, _)
ScanFrom(items, recs, dueAcc, n) ==
  IF items = <<>> THEN [recs |-> recs, due |-> dueAcc, raised |-> FALSE]
  ELSE LET e == Head(items) IN
       IF ~IsIso(e.when) THEN [recs |-> recs, due |-> dueAcc, raised |-> TRUE]
       ELSE IF fromisoformat(e.when) <= n
            THEN ScanFrom(Tail(items), DelKey(recs, e.id), Append(dueAcc, e), n)
            ELSE ScanFrom(Tail(items), recs, dueAcc, n)

\* Faulty variant of LockAfterScan: the due triggers are fired inside the with block
LockHeldWhileFiring == "loop"

\* the table lock once the `with self._lock:` block of _loop is left
LockAfterScan == "free"

\* ================================================================== Macro
Threads == {"mouse", "kb"}
Unset == 0

\* keys: a printable character, two members of keyboard.Key, and a name that
\* keyboard.Key does not have; NoKey marks a mouse notification
NoKey == "-"
CharKeys == {"a"}
NamedKeys == {"enter", "f7", "f8", "f9", "f10"}
UnknownKeys == {"zz"}

\* Macro._control_keys as App.__init__ configures it
_control_keys == {"f8", "f7", "f9", "f10"}

\* the keys the keyboard listener reports in these specifications
KbKeys == {"a", "f8"}

\* k = key.char; kind = "char", or on AttributeError the key's name; kind = "special"
KeyKind(key) == IF key \in CharKeys THEN "char" ELSE "special"

\* the event dicts the callbacks build
MoveEvent(dt) == [t |-> dt, type |-> "move", x |-> 0, y |-> 0]
KeyEvent(dt, action, key) ==
  [t |-> dt, type |-> "key", action |-> action, kind |-> KeyKind(key), key |-> key]
Event(dt, th, key) == IF th = "mouse" THEN MoveEvent(dt) ELSE KeyEvent(dt, "press", key)

\* macros a file may hold (what Macro.load reads into self.events)
SampleMacros ==
  {<<>>,
   <<MoveEvent(0)>>,
   <<MoveEvent(0), KeyEvent(1, "press", "a")>>,
   <<KeyEvent(0, "press", "f8"), KeyEvent(0, "release", "enter")>>,
   <<KeyEvent(0, "release", "f8"), KeyEvent(0, "press", "zz")>>}

ClickEvent(dt, pressed) ==
  [t |-> dt, type |-> "click", x |-> 1, y |-> 0, button |-> "left", pressed |-> pressed]
ScrollEvent(dt) == [t |-> dt, type |-> "scroll", x |-> 0, y |-> 1, dx |-> 0, dy |-> -1]

\* sequences a recording can leave in self.events
RecordedMacros ==
  {<<>>,
   <<MoveEvent(0)>>,
   <<MoveEvent(0), ClickEvent(1, TRUE), ClickEvent(0, FALSE)>>,
   <<KeyEvent(0, "press", "a"), KeyEvent(2, "release", "a"), ScrollEvent(1)>>,
   <<KeyEvent(1, "press", "enter"), MoveEvent(-1)>>}

\* --------------------------------------------------------------- JSON text
\* A JSON document is modelled by its structure: an array of objects, each object
\* a set of <<name, token>> pairs and a token <<"num", n>>, <<"str", s>> or
\* <<"bool", b>>; kinds "object", "garbage" and "missing" stand for a document
\* that is an object, text that is no JSON, and no file.
NumFields == {"t", "x", "y", "dx", "dy"}
BoolFields == {"pressed"}

\* json.dump writes an int or float as a number, a bool as true/false, a str as
\* a string
JsonTok(f, v) ==
  IF f \in NumFields THEN <<"num", v>>
  ELSE IF f \in BoolFields THEN <<"bool", v>>
  ELSE <<"str", v>>

\* Faulty variant of DumpObj: the delay is not written
DumpObjNoDelay(ev) == {<<f, JsonTok(f, ev[f])>> : f \in DOMAIN ev \ {"t"}}

\* one event dict as a JSON object
DumpObj(ev) == {<<f, JsonTok(f, ev[f])>> : f \in DOMAIN ev}

\* a JSON object as the dict json.load builds
LoadObj(obj) == [f \in {q[1] : q \in obj} |-> (CHOOSE q \in obj : q[1] = f)[2][2]]

\* what self.events is after json.load returned a dict: no list of event dicts
PyDict == <<[py |-> "dict"]>>

\* json.dump(self.events, f)
json_dump(v) ==
  IF v = PyDict THEN [kind |-> "object", items |-> <<>>]
  ELSE [kind |-> "array", items |-> [i \in DOMAIN v |-> DumpObj(v[i])]]

\* json.load(f) of a document that parses
json_load(c) ==
  IF c.kind = "object" THEN PyDict
  ELSE [i \in DOMAIN c.items |-> LoadObj(c.items[i])]

\* open(path, "r") or json.load raises
LoadRaises(c) == c.kind \in {"missing", "garbage"}

NoFile == [kind |-> "missing", items |-> <<>>]

\* files of other origin a path may name: written from a recording, not JSON,
\* a JSON object, an array with a record of unknown type, an array with a move
\* record that lacks its coordinates
ForeignFiles ==
  {json_dump(m) : m \in RecordedMacros}
  \cup {[kind |-> "garbage", items |-> <<>>],
        [kind |-> "object", items |-> <<>>],
        [kind |-> "array", items |-> <<{<<"t", <<"num", 0>>>>, <<"type", <<"str", "bogus">>>>}>>],
        [kind |-> "array", items |-> <<{<<"t", <<"num", 0>>>>, <<"type", <<"str", "move">>>>}>>]}

NoIO == [n |-> 0, op |-> "none", raised |-> FALSE, own |-> FALSE, src |-> NoFile,
         had |-> <<>>]

\* recorder history: no control call is the latest step
NoCtl == [op |-> "none", was |-> FALSE]

\* Faulty variant of Filtered: no key is filtered out
FilteredNever(key) == FALSE

\* if key in self._control_keys: return
Filtered(key) == key \in _control_keys

\* Macro.__init__, then self.events = evs
MacroNew(evs) ==
  /\ events = evs
  /\ recording = FALSE
  /\ paused = FALSE
  /\ _last_ts = Unset
  /\ listening = FALSE
  /\ clk = 1
  /\ cbPc = [th \in Threads |-> "idle"]
  /\ cbNow = [th \in Threads |-> 0]
  /\ cbDt = [th \in Threads |-> 0]
  /\ cbKey = [th \in Threads |-> NoKey]
  /\ activeTime = 0
  /\ tsBy = "ok"
  /\ lastCtl = NoCtl
  /\ _stop_flag = FALSE
  /\ playPc = "idle"
  /\ loopsLeft = 0
  /\ playList = <<>>
  /\ playIdx = 0
  /\ applied = <<>>
  /\ suppress = {}
  /\ abortSet = FALSE
  /\ escaped = FALSE
  /\ playReq = [evs |-> <<>>, loops |-> 0, stale |-> FALSE]
  /\ mfile = NoFile
  /\ savedEvs = <<>>
  /\ lastIO = NoIO

\* ------------------------------------------------------- recorder controls
\* Faulty variant of start_recording: the `if self.recording: return` is missing
start_recordingAlways ==
  /\ UNCHANGED <<schedVars, fileVars>>
  /\ lastCtl' = [op |-> "start", was |-> recording]
  /\ events' = <<>>
  /\ _stop_flag' = FALSE
  /\ recording' = TRUE
  /\ paused' = FALSE
  /\ _last_ts' = clk
  /\ listening' = TRUE
  /\ activeTime' = 0
  /\ tsBy' = "ok"
  /\ UNCHANGED <<clk, cbPc, cbNow, cbDt, cbKey>>
  /\ UNCHANGED <<playPc, loopsLeft, playList, playIdx, applied, suppress,
                         abortSet, escaped, playReq>>

start_recording ==
  /\ UNCHANGED <<schedVars, fileVars>>
  /\ lastCtl' = [op |-> "start", was |-> recording]
  /\ IF recording
     THEN UNCHANGED <<events, recording, paused, _last_ts, listening, clk, cbPc, cbNow,
                      cbDt, cbKey, activeTime, tsBy, playVars>>
     ELSE /\ events' = <<>>
          /\ _stop_flag' = FALSE
          /\ recording' = TRUE
          /\ paused' = FALSE
          /\ _last_ts' = clk
          /\ listening' = TRUE
          /\ activeTime' = 0
          /\ tsBy' = "ok"
          /\ UNCHANGED <<clk, cbPc, cbNow, cbDt, cbKey>>
          /\ UNCHANGED <<playPc, loopsLeft, playList, playIdx, applied, suppress,
                         abortSet, escaped, playReq>>

stop_recording ==
  /\ UNCHANGED <<schedVars, fileVars>>
  /\ lastCtl' = [op |-> "stop", was |-> recording]
  /\ IF ~recording
     THEN UNCHANGED <<events, recording, paused, _last_ts, listening, clk, cbPc, cbNow,
                      cbDt, cbKey, activeTime, tsBy, playVars>>
     ELSE /\ recording' = FALSE
          /\ listening' = FALSE
          /\ UNCHANGED <<events, paused, _last_ts, clk, cbPc, cbNow, cbDt, cbKey,
                         activeTime, tsBy>>
          /\ UNCHANGED playVars

pause_toggle ==
  /\ UNCHANGED <<schedVars, fileVars>>
  /\ lastCtl' = [op |-> "pause", was |-> recording]
  /\ IF ~recording
     THEN UNCHANGED <<events, recording, paused, _last_ts, listening, clk, cbPc, cbNow,
                      cbDt, cbKey, activeTime, tsBy, playVars>>
     ELSE /\ paused' = ~paused
          /\ _last_ts' = clk
          /\ tsBy' = "ok"
          /\ UNCHANGED <<events, recording, listening, clk, cbPc, cbNow, cbDt, cbKey,
                         activeTime>>
          /\ UNCHANGED playVars

\* ------------------------------------------- recorder: a listener callback
\* _on_move / _on_click / _on_scroll / _on_press / _on_release on thread th. The
\* argument self._dt() is evaluated before _rec takes the lock, in three steps.
KeysOf(th) == IF th = "mouse" THEN {NoKey} ELSE KbKeys

\* _on_press / _on_release with a control key: the callback returns at once
CbControlKey(key) ==
  /\ listening
  /\ cbPc["kb"] = "idle"
  /\ Filtered(key)
  /\ lastCtl' = [op |-> "ctlkey", was |-> recording]
  /\ UNCHANGED <<events, recording, paused, _last_ts, listening, clk, cbPc, cbNow, cbDt,
                 cbKey, activeTime, tsBy>>
  /\ UNCHANGED <<schedVars, playVars, fileVars>>

\* any other notification reaches _dt: now = time.time()
CbClock(th, key) ==
  /\ listening
  /\ Len(events) < MaxEvents
  /\ cbPc[th] = "idle"
  /\ ~Filtered(key)
  /\ cbNow' = [cbNow EXCEPT ![th] = clk]
  /\ cbKey' = [cbKey EXCEPT ![th] = key]
  /\ cbPc' = [cbPc EXCEPT ![th] = "read"]
  /\ lastCtl' = NoCtl
  /\ UNCHANGED <<events, recording, paused, _last_ts, listening, clk, cbDt, activeTime, tsBy>>
  /\ UNCHANGED <<schedVars, playVars, fileVars>>

\* _dt: dt = now - self._last_ts if self._last_ts else 0
DtValue(nowLocal, last) == IF last # Unset THEN nowLocal - last ELSE 0

CbReadLast(th) ==
  /\ cbPc[th] = "read"
  /\ cbDt' = [cbDt EXCEPT ![th] = DtValue(cbNow[th], _last_ts)]
  /\ cbPc' = [cbPc EXCEPT ![th] = "write"]
  /\ lastCtl' = NoCtl
  /\ UNCHANGED <<events, recording, paused, _last_ts, listening, clk, cbNow, cbKey,
                 activeTime, tsBy>>
  /\ UNCHANGED <<schedVars, playVars, fileVars>>

\* _dt: self._last_ts = now; return dt
CbWriteLast(th) ==
  /\ cbPc[th] = "write"
  /\ _last_ts' = cbNow[th]
  /\ tsBy' = IF cbNow[th] # _last_ts THEN th ELSE tsBy
  /\ cbNow' = [cbNow EXCEPT ![th] = 0]
  /\ cbPc' = [cbPc EXCEPT ![th] = "rec"]
  /\ lastCtl' = NoCtl
  /\ UNCHANGED <<events, recording, paused, listening, clk, cbDt, cbKey, activeTime>>
  /\ UNCHANGED <<schedVars, playVars, fileVars>>

\* Faulty variant of Drops: _rec looks at self.paused only
DropsWhilePausedOnly == paused

\* _rec: if not self.recording or self.paused: return
Drops == ~recording \/ paused

\* _rec(item), whole under self._lock
CbRec(th) ==
  /\ cbPc[th] = "rec"
  /\ cbPc' = [cbPc EXCEPT ![th] = "idle"]
  /\ cbDt' = [cbDt EXCEPT ![th] = 0]
  /\ cbKey' = [cbKey EXCEPT ![th] = NoKey]
  /\ events' = IF Drops THEN events
               ELSE Append(events, Event(cbDt[th], th, cbKey[th]))
  /\ tsBy' = IF tsBy # th THEN tsBy ELSE IF Drops THEN "dropped" ELSE "ok"
  /\ lastCtl' = [op |-> IF Drops THEN "drop" ELSE "rec", was |-> recording]
  /\ UNCHANGED <<recording, paused, _last_ts, listening, clk, cbNow, activeTime>>
  /\ UNCHANGED <<schedVars, playVars, fileVars>>

\* time.time() advances
RecTick ==
  /\ clk < MaxClk
  /\ clk' = clk + 1
  /\ activeTime' = IF recording /\ ~paused THEN activeTime + 1 ELSE activeTime
  /\ UNCHANGED tsBy
  /\ lastCtl' = NoCtl
  /\ UNCHANGED <<events, recording, paused, _last_ts, listening, cbPc, cbNow, cbDt, cbKey>>
  /\ UNCHANGED <<schedVars, playVars, fileVars>>

\* ------------------------------------------------------------------ player
Max(a, b) == IF a >= b THEN a ELSE b

\* _first_xy: the first positional event, if any
HasPositional(evs) == \E i \in DOMAIN evs : evs[i].type \in {"move", "click", "scroll"}

\* the suppress_hotkeys list _run_event and App._play_thread pass
RunEventSuppress == {"f8", "f7", "f9", "f10"}

\* suppress_hotkeys of a play call: None (made []) or the list above
PlaySuppress == {{}, RunEventSuppress}

\* Faulty variant of Skips: suppress_hotkeys is ignored
SkipsUnresolvedOnly(ev, sup) ==
  ev.type = "key" /\ ev.kind # "char" /\ ev.key \notin NamedKeys

\* a key event that is not of kind "char": keyobj = getattr(keyboard.Key, k, None);
\* if keyobj is None or keyobj in suppress_hotkeys: continue
Skips(ev, sup) ==
  ev.type = "key" /\ ev.kind # "char" /\ (ev.key \notin NamedKeys \/ ev.key \in sup)

\* Faulty variant of PlayStart: self._stop_flag.clear() is missing
PlayStartKeepsFlag(loops, suppress_hotkeys) ==
  /\ playPc = "idle"
  /\ UNCHANGED <<schedVars, recVars, fileVars>>
  /\ playReq' = [evs |-> events, loops |-> Max(1, loops), stale |-> _stop_flag]
  /\ abortSet' = FALSE
  /\ IF events = <<>>
     THEN /\ applied' = <<>>
          /\ UNCHANGED <<_stop_flag, playPc, loopsLeft, playList, playIdx, suppress, escaped>>
     ELSE /\ UNCHANGED _stop_flag
          /\ suppress' = suppress_hotkeys
          /\ applied' = IF HasPositional(events) THEN <<[t |-> 0, type |-> "position"]>>
                        ELSE <<>>
          /\ loopsLeft' = Max(1, loops)
          /\ playPc' = "loopTop"
          /\ playList' = <<>>
          /\ playIdx' = 0
          /\ escaped' = FALSE

\* play, up to the first loop iteration: an empty macro returns at once; otherwise
\* the flag is cleared and the pointer is put on the first positional event
PlayStart(loops, suppress_hotkeys) ==
  /\ playPc = "idle"
  /\ UNCHANGED <<schedVars, recVars, fileVars>>
  /\ playReq' = [evs |-> events, loops |-> Max(1, loops), stale |-> _stop_flag]
  /\ abortSet' = FALSE
  /\ IF events = <<>>
     THEN /\ applied' = <<>>
          /\ UNCHANGED <<_stop_flag, playPc, loopsLeft, playList, playIdx, suppress, escaped>>
     ELSE /\ _stop_flag' = FALSE
          /\ suppress' = suppress_hotkeys
          /\ applied' = IF HasPositional(events) THEN <<[t |-> 0, type |-> "position"]>>
                        ELSE <<>>
          /\ loopsLeft' = Max(1, loops)
          /\ playPc' = "loopTop"
          /\ playList' = <<>>
          /\ playIdx' = 0
          /\ escaped' = FALSE

\* for _ in range(max(1, int(loops))): if self._stop_flag.is_set(): break
PlayLoopTop ==
  /\ playPc = "loopTop"
  /\ UNCHANGED <<schedVars, recVars, fileVars>>
  /\ IF loopsLeft = 0 \/ _stop_flag
     THEN /\ playPc' = "idle"
          /\ UNCHANGED <<_stop_flag, loopsLeft, playList, playIdx, applied, suppress,
                         abortSet, escaped, playReq>>
     ELSE /\ loopsLeft' = loopsLeft - 1
          /\ playList' = events
          /\ playIdx' = 1
          /\ playPc' = "evTop"
          /\ UNCHANGED <<_stop_flag, applied, suppress, abortSet, escaped, playReq>>

\* for ev in self.events: if self._stop_flag.is_set(): break
PlayEvTop ==
  /\ playPc = "evTop"
  /\ UNCHANGED <<schedVars, recVars, fileVars>>
  /\ IF playIdx > Len(playList) \/ _stop_flag
     THEN /\ playPc' = "loopTop"
          /\ UNCHANGED <<_stop_flag, loopsLeft, playList, playIdx, applied, suppress,
                         abortSet, escaped, playReq>>
     ELSE /\ playPc' = "sleep"
          /\ escaped' = (escaped \/ abortSet)
          /\ UNCHANGED <<_stop_flag, loopsLeft, playList, playIdx, applied, suppress,
                         abortSet, playReq>>

\* time.sleep(t), then the event is applied to the device, or skipped by `continue`
PlayApply ==
  /\ playPc = "sleep"
  /\ UNCHANGED <<schedVars, recVars, fileVars>>
  /\ applied' = IF Skips(playList[playIdx], suppress) THEN applied
                ELSE Append(applied, playList[playIdx])
  /\ playIdx' = playIdx + 1
  /\ playPc' = "evTop"
  /\ UNCHANGED <<_stop_flag, loopsLeft, playList, suppress, abortSet, escaped, playReq>>

abort_playback ==
  /\ UNCHANGED <<schedVars, recVars, fileVars>>
  /\ _stop_flag' = TRUE
  /\ abortSet' = (abortSet \/ playPc # "idle")
  /\ UNCHANGED <<playPc, loopsLeft, playList, playIdx, applied, suppress, escaped, playReq>>

\* ------------------------------------------------------------ Macro files
\* Macro.save(path): open(path, "w"), json.dump(self.events, f)
Macro_save ==
  /\ lastIO.n < MaxIO
  /\ mfile' = json_dump(events)
  /\ savedEvs' = events
  /\ lastIO' = [n |-> lastIO.n + 1, op |-> "save", raised |-> FALSE, own |-> TRUE,
                src |-> mfile', had |-> events]
  /\ UNCHANGED <<schedVars, recVars, playVars>>

\* Macro.load(path) of the file save wrote (own) or of a file of content c:
\* self.events = json.load(f); an exception leaves self.events as it was
Macro_load(own, c) ==
  /\ lastIO.n < MaxIO
  /\ own => c = mfile
  /\ lastIO' = [n |-> lastIO.n + 1, op |-> "load", raised |-> LoadRaises(c), own |-> own,
                src |-> c, had |-> events]
  /\ events' = IF LoadRaises(c) THEN events ELSE json_load(c)
  /\ UNCHANGED <<recording, paused, _last_ts, listening, clk, cbPc, cbNow, cbDt, cbKey,
                 activeTime, tsBy, lastCtl>>
  /\ UNCHANGED <<schedVars, playVars, mfile, savedEvs>>

\* ------------------------------------------------------ Scheduler: initial
NoOp == [op |-> "none", uid |-> NoUid, found |-> FALSE, raised |-> FALSE,
         explicit |-> FALSE, at |-> FALSE]

\* Scheduler.__init__ over file content d: load() the file, start the thread
SchedStart(d) ==
  /\ disk = d
  /\ _events = load(d)
  /\ _lock = "free"
  /\ loopPc = "sleep"
  /\ due = <<>>
  /\ cur = None
  /\ now = 0
  /\ calls = 0
  /\ lastOp = NoOp
  /\ listed = <<>>
  /\ used = Keys(load(d))
  /\ scanned = {}
  /\ cancelled = {}
  /\ played = [k \in Ids |-> 0]
  /\ lastRun = "none"
  /\ owed = {}
  /\ missed = {}
  /\ lost = {}
  /\ bootDisk = d
  /\ stored = d

\* -------------------------------------------------------- Scheduler: calls
\* uuid.uuid4() never returns an id that was used before
NewUids(uidArg) == IF uidArg = NoUid THEN Ids \ used ELSE {uidArg}

\* the table after add's assignment
AddTable(tbl, rec) == [kind |-> "map", recs |-> Put(tbl.recs, rec)]

\* Faulty variant of RemoveTable: the oldest entry is deleted, whatever uid is
RemoveTableOldest(tbl, uid) == [kind |-> "map", recs |-> Tail(tbl.recs)]

\* the table after remove's del
RemoveTable(tbl, uid) == [kind |-> "map", recs |-> DelKey(tbl.recs, uid)]

add(uidArg, when_dt, macro_path) ==
  /\ UNCHANGED <<recVars, playVars, fileVars>>
  /\ _lock = "free"
  /\ calls < MaxCalls
  /\ calls' = calls + 1
  /\ listed' = <<>>
  /\ IF _events.kind # "map"
     THEN \* item assignment on a list, str, number or None raises TypeError
          /\ lastOp' = [op |-> "add", uid |-> uidArg, found |-> FALSE, raised |-> TRUE,
                        explicit |-> uidArg # NoUid, at |-> loopPc = "play"]
          /\ UNCHANGED <<_events, disk, used, owed, stored>>
     ELSE \E uid \in NewUids(uidArg) :
          /\ _events' = AddTable(_events, Trigger(uid, when_dt, macro_path))
          /\ disk' = save(_events')
          /\ stored' = disk'
          /\ lastOp' = [op |-> "add", uid |-> uid, found |-> uid \in Keys(_events),
                        raised |-> FALSE, explicit |-> uidArg # NoUid, at |-> loopPc = "play"]
          /\ used' = used \cup {uid}
          /\ owed' = IF when_dt <= now THEN owed \cup {uid} ELSE owed \ {uid}
  /\ UNCHANGED <<_lock, loopPc, due, cur, now, scanned, cancelled, played, lastRun, missed,
                 lost, bootDisk>>

remove(uid) ==
  /\ UNCHANGED <<recVars, playVars, fileVars>>
  /\ _lock = "free"
  /\ calls < MaxCalls
  /\ calls' = calls + 1
  /\ listed' = <<>>
  /\ lastOp' = [op |-> "remove", uid |-> uid, found |-> uid \in Keys(_events),
                raised |-> FALSE, explicit |-> TRUE, at |-> loopPc = "play"]
  /\ IF uid \in Keys(_events)
     THEN /\ _events' = RemoveTable(_events, uid)
          /\ disk' = save(_events')
          /\ stored' = disk'
          /\ cancelled' = cancelled \cup {uid}
          /\ owed' = owed \ {uid}
     ELSE UNCHANGED <<_events, disk, cancelled, owed, stored>>
  /\ UNCHANGED <<_lock, loopPc, due, cur, now, used, scanned, played, lastRun, missed,
                 lost, bootDisk>>

list_all ==
  /\ UNCHANGED <<recVars, playVars, fileVars>>
  /\ _lock = "free"
  /\ calls < MaxCalls
  /\ calls' = calls + 1
  /\ IF _events.kind = "map"
     THEN /\ listed' = SortByWhen(_events.recs)
          /\ lastOp' = [op |-> "list_all", uid |-> NoUid, found |-> FALSE, raised |-> FALSE,
                        explicit |-> FALSE, at |-> loopPc = "play"]
     ELSE \* .values() on a non-mapping raises AttributeError
          /\ listed' = <<>>
          /\ lastOp' = [op |-> "list_all", uid |-> NoUid, found |-> FALSE, raised |-> TRUE,
                        explicit |-> FALSE, at |-> loopPc = "play"]
  /\ UNCHANGED <<_events, disk, _lock, loopPc, due, cur, now, used, scanned, cancelled,
                 played, lastRun, owed, missed,
                 lost, bootDisk, stored>>

\* ----------------------------------------------------- Scheduler: the loop
\* Faulty variant of LoopWake: the next poll cycle does not wait for the fired
\* playback to return
LoopWakeWhilePlaying ==
  /\ UNCHANGED <<recVars, playVars, fileVars>>
  /\ loopPc \in {"sleep", "play"}
  /\ _lock = "free"
  /\ _lock' = "loop"
  /\ loopPc' = "scan"
  /\ due' = <<>>
  /\ UNCHANGED <<_events, disk, cur, now, calls, lastOp, listed, used, scanned,
                 cancelled, played, lastRun, owed, missed,
                 lost, bootDisk, stored>>

\* time.sleep(0.5) is over and the loop takes the lock
LoopWake ==
  /\ UNCHANGED <<recVars, playVars, fileVars>>
  /\ loopPc = "sleep"
  /\ _lock = "free"
  /\ _lock' = "loop"
  /\ loopPc' = "scan"
  /\ due' = <<>>
  /\ UNCHANGED <<_events, disk, cur, now, calls, lastOp, listed, used, scanned,
                 cancelled, played, lastRun, owed, missed,
                 lost, bootDisk, stored>>

\* the critical section: scan, delete the due triggers, save once if any
LoopScan ==
  /\ UNCHANGED <<recVars, playVars, fileVars>>
  /\ loopPc = "scan"
  /\ _events.kind = "map"
  /\ LET r == ScanFrom(_events.recs, _events.recs, <<>>, now)
         taken == {e.id : e \in Range(r.due)}
     IN /\ ~r.raised
        /\ _events' = [kind |-> "map", recs |-> r.recs]
        /\ disk' = IF r.due # <<>> THEN save(_events') ELSE disk
        /\ stored' = IF r.due # <<>> THEN disk' ELSE stored
        /\ due' = r.due
        /\ scanned' = scanned \cup taken
        /\ missed' = missed \cup (owed \ taken)
        /\ owed' = owed \ taken
  /\ _lock' = LockAfterScan
  /\ loopPc' = "fire"
  /\ UNCHANGED <<cur, now, calls, lastOp, listed, used, cancelled, played, lastRun,
                 lost, bootDisk>>

\* the scan raises (table not a mapping, or a "when" that is no ISO string): the
\* exception leaves the with block, which releases the lock, and ends the thread;
\* the local list `due` dies with it
LoopScanRaises ==
  /\ UNCHANGED <<recVars, playVars, fileVars>>
  /\ loopPc = "scan"
  /\ LET r == IF _events.kind = "map"
              THEN ScanFrom(_events.recs, _events.recs, <<>>, now)
              ELSE [recs |-> _events.recs, due |-> <<>>, raised |-> TRUE]
         taken == {e.id : e \in Range(r.due)}
     IN /\ r.raised
        /\ _events' = [kind |-> _events.kind, recs |-> r.recs]
        /\ scanned' = scanned \cup taken
        /\ missed' = missed \cup owed
        /\ owed' = {}
        /\ lost' = lost \cup taken
  /\ due' = <<>>
  /\ _lock' = "free"
  /\ loopPc' = "dead"
  /\ UNCHANGED <<disk, cur, now, calls, lastOp, listed, used, cancelled, played, lastRun,
                 bootDisk, stored>>

\* for e in due: self._run_event(e), up to the point where play starts or the
\* call ends (no file: skipped; load raises: caught by the loop)
LoopFire ==
  /\ UNCHANGED <<recVars, playVars, fileVars>>
  /\ loopPc = "fire"
  /\ due # <<>>
  /\ LET e == Head(due) IN
     /\ due' = Tail(due)
     /\ IF ~isfile(e.macro)
        THEN /\ lastRun' = "skipped"
             /\ UNCHANGED <<loopPc, cur, played>>
        ELSE IF ~MacroLoads(e.macro)
        THEN /\ lastRun' = "loadfail"
             /\ UNCHANGED <<loopPc, cur, played>>
        ELSE /\ cur' = e
             /\ played' = [played EXCEPT ![e.id] = @ + 1]
             /\ loopPc' = "play"
             /\ UNCHANGED lastRun
  /\ UNCHANGED <<_events, disk, _lock, now, calls, lastOp, listed, used, scanned,
                 cancelled, owed, missed,
                 lost, bootDisk, stored>>

\* m.play returns
LoopPlayReturns ==
  /\ UNCHANGED <<recVars, playVars, fileVars>>
  /\ loopPc = "play"
  /\ loopPc' = "fire"
  /\ lastRun' = "played"
  /\ cur' = None
  /\ UNCHANGED <<_events, disk, _lock, due, now, calls, lastOp, listed, used, scanned,
                 cancelled, played, owed, missed,
                 lost, bootDisk, stored>>

\* m.play raises (an injection error); `except Exception: pass` in _loop
LoopPlayRaises ==
  /\ UNCHANGED <<recVars, playVars, fileVars>>
  /\ loopPc = "play"
  /\ loopPc' = "fire"
  /\ lastRun' = "raised"
  /\ cur' = None
  /\ UNCHANGED <<_events, disk, _lock, due, now, calls, lastOp, listed, used, scanned,
                 cancelled, played, owed, missed,
                 lost, bootDisk, stored>>

\* the for loop over `due` is done: back to the top of the while loop
LoopNext ==
  /\ UNCHANGED <<recVars, playVars, fileVars>>
  /\ loopPc = "fire"
  /\ due = <<>>
  /\ loopPc' = "sleep"
  /\ UNCHANGED <<_events, disk, _lock, due, cur, now, calls, lastOp, listed, used,
                 scanned, cancelled, played, lastRun, owed, missed,
                 lost, bootDisk, stored>>

\* the wall clock advances
Tick ==
  /\ UNCHANGED <<recVars, playVars, fileVars>>
  /\ now < MaxTime
  /\ now' = now + 1
  /\ UNCHANGED <<_events, disk, _lock, loopPc, due, cur, calls, lastOp, listed, used,
                 scanned, cancelled, played, lastRun, owed, missed,
                 lost, bootDisk, stored>>

\* ------------------------------------------ Scheduler: writes that fail
\* Scheduler.save when the write does not complete: open() raised and the file is
\* as it was, or open(path, "w") had truncated the file and json.dump did not
\* finish (error or the process ended), which leaves text json.load rejects.
\* `except Exception: pass` hides the error from the caller.
FailedWrites(d) == {d, [kind |-> "garbage", recs |-> <<>>]}

addWriteFails(uidArg, when_dt, macro_path) ==
  /\ UNCHANGED <<recVars, playVars, fileVars>>
  /\ _lock = "free"
  /\ calls < MaxCalls
  /\ _events.kind = "map"
  /\ calls' = calls + 1
  /\ listed' = <<>>
  /\ \E uid \in NewUids(uidArg) :
       /\ _events' = AddTable(_events, Trigger(uid, when_dt, macro_path))
       /\ lastOp' = [op |-> "add", uid |-> uid, found |-> uid \in Keys(_events),
                     raised |-> FALSE, explicit |-> uidArg # NoUid, at |-> loopPc = "play"]
       /\ used' = used \cup {uid}
       /\ owed' = IF when_dt <= now THEN owed \cup {uid} ELSE owed \ {uid}
  /\ disk' \in FailedWrites(disk)
  /\ UNCHANGED <<_lock, loopPc, due, cur, now, scanned, cancelled, played, lastRun, missed,
                 lost, bootDisk, stored>>

removeWriteFails(uid) ==
  /\ UNCHANGED <<recVars, playVars, fileVars>>
  /\ _lock = "free"
  /\ calls < MaxCalls
  /\ uid \in Keys(_events)
  /\ calls' = calls + 1
  /\ listed' = <<>>
  /\ lastOp' = [op |-> "remove", uid |-> uid, found |-> TRUE,
                raised |-> FALSE, explicit |-> TRUE, at |-> loopPc = "play"]
  /\ _events' = RemoveTable(_events, uid)
  /\ disk' \in FailedWrites(disk)
  /\ cancelled' = cancelled \cup {uid}
  /\ owed' = owed \ {uid}
  /\ UNCHANGED <<_lock, loopPc, due, cur, now, used, scanned, played, lastRun, missed,
                 lost, bootDisk, stored>>

\* the critical section of _loop when its save does not complete
LoopScanWriteFails ==
  /\ UNCHANGED <<recVars, playVars, fileVars>>
  /\ loopPc = "scan"
  /\ _events.kind = "map"
  /\ LET r == ScanFrom(_events.recs, _events.recs, <<>>, now)
         taken == {e.id : e \in Range(r.due)}
     IN /\ ~r.raised
        /\ r.due # <<>>
        /\ _events' = [kind |-> "map", recs |-> r.recs]
        /\ disk' \in FailedWrites(disk)
        /\ due' = r.due
        /\ scanned' = scanned \cup taken
        /\ missed' = missed \cup (owed \ taken)
        /\ owed' = owed \ taken
  /\ _lock' = LockAfterScan
  /\ loopPc' = "fire"
  /\ UNCHANGED <<cur, now, calls, lastOp, listed, used, cancelled, played, lastRun,
                 lost, bootDisk, stored>>

\* the program ends (its threads are daemons) and is started again:
\* Scheduler.__init__ runs over the file as it is
Restart ==
  /\ UNCHANGED <<recVars, playVars, fileVars>>
  /\ _events' = load(disk)
  /\ _lock' = "free"
  /\ loopPc' = "sleep"
  /\ due' = <<>>
  /\ cur' = None
  /\ lastOp' = [NoOp EXCEPT !.op = "restart"]
  /\ listed' = <<>>
  /\ used' = Keys(load(disk))
  /\ scanned' = {}
  /\ cancelled' = {}
  /\ played' = [k \in Ids |-> 0]
  /\ lastRun' = "none"
  /\ owed' = {}
  /\ missed' = {}
  /\ lost' = {}
  /\ bootDisk' = disk
  /\ UNCHANGED <<disk, now, calls, stored>>

SchedNext ==
  \/ \E uidArg \in {NoUid} \cup Ids, when_dt \in Times, macro_path \in MacroFiles :
       add(uidArg, when_dt, macro_path)
  \/ \E uid \in Ids : remove(uid)
  \/ list_all
  \/ LoopWake
  \/ LoopScan
  \/ LoopScanRaises
  \/ LoopFire
  \/ LoopPlayReturns
  \/ LoopPlayRaises
  \/ LoopNext
  \/ Tick

SchedInit == (\E d \in InitialDisks : SchedStart(d)) /\ MacroNew(<<>>)

SchedSpec == SchedInit /\ [][SchedNext]_vars

\* the Scheduler with writes that may fail and restarts of the program
StoreNext ==
  \/ SchedNext
  \/ \E uidArg \in {NoUid} \cup Ids, when_dt \in Times, macro_path \in MacroFiles :
       addWriteFails(uidArg, when_dt, macro_path)
  \/ \E uid \in Ids : removeWriteFails(uid)
  \/ LoopScanWriteFails
  \/ Restart

StoreSpec == SchedInit /\ [][StoreNext]_vars

\* the Scheduler of the other specifications: constructed over no file, left alone
SchedIdle == SchedStart([kind |-> "missing", recs |-> <<>>])

RecInit == SchedIdle /\ MacroNew(<<>>)

RecNext ==
  \/ start_recording
  \/ stop_recording
  \/ pause_toggle
  \/ \E key \in KbKeys : CbControlKey(key)
  \/ \E th \in Threads : \E key \in KeysOf(th) : CbClock(th, key)
  \/ \E th \in Threads : CbReadLast(th)
  \/ \E th \in Threads : CbWriteLast(th)
  \/ \E th \in Threads : CbRec(th)
  \/ RecTick

RecSpec == RecInit /\ [][RecNext]_vars

PlayInit == SchedIdle /\ \E evs \in SampleMacros : MacroNew(evs)

PlayNext ==
  \/ \E loops \in 0..MaxLoops, suppress_hotkeys \in PlaySuppress :
       PlayStart(loops, suppress_hotkeys)
  \/ PlayLoopTop
  \/ PlayEvTop
  \/ PlayApply
  \/ abort_playback
  \/ start_recording
  \/ stop_recording

PlaySpec == PlayInit /\ [][PlayNext]_vars

FileInit == SchedIdle /\ \E evs \in RecordedMacros : MacroNew(evs)

FileNext ==
  \/ Macro_save
  \/ Macro_load(TRUE, mfile)
  \/ \E c \in ForeignFiles : Macro_load(FALSE, c)

FileSpec == FileInit /\ [][FileNext]_vars

\* ======================================================== Scheduler claims
Left == scanned \cup cancelled
ApiStep(name) == calls' = calls + 1 /\ lastOp'.op = name
WellFormed(rec) == IsIso(rec.when)
Corrupt(d) ==
  \/ d.kind \in {"missing", "garbage", "array"}
  \/ d.kind = "map" /\ \E e \in Range(d.recs) : ~WellFormed(e)

\* C1: over any interleaving of add, remove and poll cycles, every
\* trigger is played at most once, leaves the table by the loop's scan or by
\* remove(id) but never both, and an id that has left the table is never in the
\* table again.
C1_PlayedAndRemovedOnce ==
  \A k \in Ids :
    /\ played[k] <= 1
    /\ ~(k \in scanned /\ k \in cancelled)
    /\ k \in Left => k \notin Keys(_events)

\* C2: a failure while processing one trigger in a poll cycle (here a malformed
\* trigger record) never stops the polling loop, and every due trigger deleted from
\* the table in a cycle is handed to _run_event before the next cycle begins.
C2_FailureNeverStopsLoop ==
  /\ loopPc # "dead"
  /\ lost = {}
  /\ loopPc \in {"sleep", "scan"} => due = <<>>

\* C3: a Scheduler constructed over missing or corrupt storage starts with an
\* empty table and its loop keeps polling.
C3_CorruptStorageStartsEmpty ==
  Corrupt(bootDisk) =>
    /\ loopPc # "dead"
    /\ (calls = 0 /\ scanned = {}) => _events = [kind |-> "map", recs |-> <<>>]

\* C7: the loop never holds the table lock while a fired playback is being run or
\* the due list is being worked off: add, remove and list_all can take the lock and
\* complete at any such moment.
C7_LockFreeWhileFiring ==
  loopPc \in {"fire", "play"} =>
    /\ _lock = "free"
    /\ calls < MaxCalls =>
         /\ ENABLED list_all
         /\ \A uid \in Ids : ENABLED remove(uid)
         /\ \A uid \in Ids : ENABLED add(uid, 0, "ok.json")

\* C7 witness: a remove call deleted a trigger while a fired playback was running,
\* and that playback is still running.
C7_Witness ==
  /\ loopPc = "play"
  /\ lastOp.op = "remove" /\ lastOp.found /\ lastOp.at

\* C8: a trigger that add inserted with a time not in the future, and that was
\* neither removed by remove(id) nor overwritten since, is deleted from the table
\* and handed to the firing list by the first scan attempted after add returned.
C8_PastDueFiresOnNextScan == missed = {}

\* C9: every add call that lets the Scheduler generate the id returns an id that
\* was not in the table, inserts exactly that trigger, leaves every other trigger
\* unchanged, grows the table by one and persists the whole table.
C9_AddInsertsFreshTrigger ==
  [][(ApiStep("add") /\ ~lastOp'.explicit) =>
       /\ ~lastOp'.raised
       /\ lastOp'.uid \notin Keys(_events)
       /\ Keys(_events') = Keys(_events) \cup {lastOp'.uid}
       /\ \A k \in Keys(_events) : Get(_events', k) = Get(_events, k)
       /\ Len(_events'.recs) = Len(_events.recs) + 1
       /\ disk' = [kind |-> "map", recs |-> _events'.recs]]_vars

C11_ListAllSortedSnapshot ==
  [][ApiStep("list_all") =>
       /\ ~lastOp'.raised
       /\ Len(listed') = Len(_events.recs)
       /\ Range(listed') = Range(_events.recs)
       /\ \A i \in 1..(Len(listed') - 1) :
            /\ IsIso(listed'[i].when) /\ IsIso(listed'[i + 1].when)
            /\ fromisoformat(listed'[i].when) <= fromisoformat(listed'[i + 1].when)]_vars

\* C12: once the table has been mutated, whenever no scheduler operation holds the
\* table lock the persisted table equals the in-memory table (before the first
\* mutation the file is the one the Scheduler was constructed over).
C12_StorageHoldsTable ==
  _lock = "free" =>
    \/ disk = save(_events)
    \/ disk = bootDisk /\ _events = load(bootDisk)

\* C13: the storage file always reads as the content of the last write that
\* completed: a save that fails or is cut short leaves the previously persisted
\* table readable, and a Scheduler started again afterwards has that table.
C13_LastFullWriteSurvives ==
  /\ load(disk) = load(stored)
  /\ lastOp.op = "restart" => _events = load(stored)

\* the triggers of a table that are due at instant n, in table order, and the rest
DueAt(recs, n) == SelectSeq(recs, LAMBDA e : IsIso(e.when) /\ fromisoformat(e.when) <= n)
NotDueAt(recs, n) == SelectSeq(recs, LAMBDA e : ~(IsIso(e.when) /\ fromisoformat(e.when) <= n))

\* C21: the critical section of a poll cycle removes every due trigger from the
\* table and nothing else, writes the table once if a trigger was due and leaves
\* the file alone otherwise, and releases the lock; the removed triggers are then
\* handed to _run_event one by one in table order, and the next cycle begins only
\* when all of them have been.
C21_PollCycleRemovesThenFires ==
  [][/\ (loopPc = "scan" /\ loopPc' # "scan") =>
          /\ _lock' = "free"
          /\ due' = DueAt(_events.recs, now)
          /\ _events'.recs = NotDueAt(_events.recs, now)
          /\ disk' = IF due' # <<>> THEN save(_events') ELSE disk
     /\ (loopPc = "fire" /\ due' # due) =>
          /\ due' = Tail(due)
          /\ _lock = "free"
          /\ cur' = Head(due) \/ lastRun' \in {"skipped", "loadfail"}
     /\ (loopPc = "fire" /\ loopPc' = "sleep") => due = <<>>]_vars

\* C24: when the critical section of a poll cycle ends, no trigger it hands to
\* _run_event is in the persisted table any more, so a Scheduler constructed
\* over the file from then on does not fire it again.
C24_FiredTriggersLeftStorage ==
  [][(loopPc = "scan" /\ loopPc' = "fire") =>
       \A i \in DOMAIN due' : due'[i] \notin Range(load(disk').recs)]_vars

\* C25: while a playback fired by the loop runs, the loop is inside that one
\* playback: it holds no lock, scans nothing, starts no other playback and leaves
\* its list of due triggers alone, and the table changes only by add and remove.
C25_OnePlaybackNoScan ==
  [][/\ cur' # None => loopPc' = "play"
     /\ cur # None =>
          /\ _lock = "free"
          /\ scanned' = scanned
          /\ played' = played
          /\ due' = due
          /\ _events' # _events => ApiStep("add") \/ ApiStep("remove")]_vars

\* list_all, called while a fired playback runs, shows a trigger other than the
\* playing one whose time has come
C25_Witness ==
  /\ cur # None
  /\ lastOp.op = "list_all" /\ lastOp.at
  /\ \E i \in DOMAIN listed :
       /\ listed[i].id # cur.id
       /\ listed[i].when = isoformat(now)
       /\ listed[i] \in Range(_events.recs)

\* ========================================================= Recorder claims
RECURSIVE SumDelays(_)
SumDelays(evs) == IF evs = <<>> THEN 0 ELSE Head(evs).t + SumDelays(Tail(evs))

\* C4: under any interleaving of the two listener threads with each other and with
\* pause_toggle, start_recording and stop_recording, every captured event has a
\* delay >= 0 (the clock never goes back).
C4_DelaysNonNegative == \A i \in DOMAIN events : events[i].t >= 0

\* C5: no recorded delay includes any part of a paused interval: the delays of the
\* captured events never add up to more than the time spent recording un-paused.
C5_DelaysExcludePausedTime == SumDelays(events) <= activeTime

\* the Macro's program state a recorder call may touch
MacroState == <<events, recording, paused, _last_ts, listening, _stop_flag>>

\* C14: start_recording while recording changes nothing (the captured sequence,
\* the paused flag, the last timestamp and the listeners stay as they are),
\* stop_recording while not recording changes nothing, and start_recording from
\* idle empties the sequence and leaves the recorder recording and un-paused.
C14_StartStopIdempotent ==
  [][/\ (lastCtl'.op = "start" /\ recording) => UNCHANGED MacroState
     /\ (lastCtl'.op = "stop" /\ ~recording) => UNCHANGED MacroState
     /\ (lastCtl'.op = "start" /\ ~recording) =>
          (events' = <<>> /\ recording' /\ ~paused' /\ listening')]_vars

\* C14 witness: start_recording was just called on a running, paused recording
\* that had captured an event, and the event is still there.
C14_Witness ==
  /\ lastCtl = [op |-> "start", was |-> TRUE]
  /\ events # <<>> /\ paused

\* C16: no captured event is about a control key, and a notification for a
\* control key leaves the captured sequence and the last-event timestamp as they
\* were, whatever the recorder state.
C16_ControlKeysNeverCaptured ==
  [][/\ \A i \in DOMAIN events' :
          events'[i].type = "key" => events'[i].key \notin _control_keys
     /\ lastCtl'.op = "ctlkey" => UNCHANGED <<events, _last_ts>>]_vars

\* C16 witness: a control-key notification arrived while the recorder was
\* recording un-paused, after an ordinary key had been captured.
C16_Witness ==
  /\ lastCtl = [op |-> "ctlkey", was |-> TRUE]
  /\ ~paused
  /\ \E i \in DOMAIN events : events[i].type = "key"

\* C22: a notification that _rec drops because the Recorder is paused leaves
\* _last_ts as it was: after such a drop the timestamp is never one that the
\* dropped notification wrote.
C22_DroppedLeavesTimestamp ==
  ~(lastCtl.op = "drop" /\ recording /\ paused /\ tsBy = "dropped")

\* C23: while the Recorder is not recording, the captured sequence changes only
\* by start_recording; a callback that reaches _rec after stop_recording appends
\* nothing.
C23_NoCaptureWhileStopped ==
  [][(~recording /\ events' # events) => lastCtl'.op = "start"]_vars

\* a callback that was in flight when stop_recording returned has reached _rec,
\* with the Recorder not paused and a non-empty capture
C23_Witness ==
  /\ lastCtl.op = "drop"
  /\ ~recording
  /\ ~paused
  /\ events # <<>>

\* =========================================================== Player claims
\* C6: once abort_playback has set the flag while play is running, play returns at
\* its next check point: no event whose check point comes after the flag was set
\* gets past that check to be applied, in this loop iteration or a later one.
C6_AbortStopsAtNextCheckPoint == ~escaped

\* what an undisturbed play of evs applies: the pointer is put on the first
\* positional event, then the events that are not skipped, in order, n times
RECURSIVE Repeat(_, _)
Repeat(seq, n) == IF n = 0 THEN <<>> ELSE seq \o Repeat(seq, n - 1)
Kept(evs, sup) == SelectSeq(evs, LAMBDA e : ~Skips(e, sup))
Expected(req, sup) ==
  (IF HasPositional(req.evs) THEN <<[t |-> 0, type |-> "position"]>> ELSE <<>>)
    \o Repeat(Kept(req.evs, sup), req.loops)

\* C15: a play call that returned without abort_playback having been called
\* during it has applied the macro's events in stored order, the whole sequence
\* max(1, loops) times (a key event skipped by suppression aside); over an empty
\* sequence it has applied nothing.
C15_PlaysAllInOrder ==
  (playPc = "idle" /\ ~abortSet) => applied = Expected(playReq, suppress)

\* C17: no key event of a named key that is in suppress_hotkeys is applied to the
\* keyboard; play skips it and goes on to the next event. The playbacks the
\* Scheduler fires pass the four control keys, so none of them is ever applied.
C17_SuppressedKeysNeverInjected ==
  [][/\ \A i \in DOMAIN applied' :
          applied'[i].type = "key" =>
            ~(applied'[i].kind # "char" /\ applied'[i].key \in NamedKeys
                /\ applied'[i].key \in suppress')
     /\ suppress' = RunEventSuppress =>
          \A i \in DOMAIN applied' :
            applied'[i].type = "key" => applied'[i].key \notin _control_keys
     /\ (playPc = "sleep" /\ playPc' = "evTop" /\ playList[playIdx].type = "key"
           /\ playList[playIdx].key \in suppress) =>
          (applied' = applied /\ playIdx' = playIdx + 1)]_vars

\* C17 witness: a play with the four control keys suppressed has skipped the f8
\* event of its macro and applied the event after it.
C17_Witness ==
  /\ suppress = RunEventSuppress
  /\ playList = <<KeyEvent(0, "press", "f8"), KeyEvent(0, "release", "enter")>>
  /\ applied = <<KeyEvent(0, "release", "enter")>>

\* C20: abort_playback while no play is running applies nothing and starts
\* nothing, and a play call made with the flag still set from such a call, and
\* not aborted itself, returns with all events and loops applied.
C20_IdleAbortIsNoOp ==
  [][/\ (playPc = "idle" /\ ~_stop_flag /\ _stop_flag') =>
          (applied' = applied /\ playPc' = "idle" /\ events' = events)
     /\ (playPc' = "idle" /\ playReq'.stale /\ ~abortSet') =>
          applied' = Expected(playReq', suppress')]_vars

\* C26: while play runs, the cancellation flag is set only if abort_playback
\* was called after play cleared it: a flag left set by an earlier abort never
\* reaches a check point of the new playback.
C26_OnlyLaterAbortStops == (playPc # "idle" /\ _stop_flag) => abortSet

\* a play call made with the flag still set has run to its end, with no abort
\* in between, and applied every event of every loop
C26_Witness ==
  /\ playPc = "idle"
  /\ playReq.stale /\ ~abortSet
  /\ playReq.evs # <<>>
  /\ Len(applied) >= 2
  /\ applied = Expected(playReq, suppress)

\* ============================================================= File claims
IOStep(name) == lastIO'.n = lastIO.n + 1 /\ lastIO'.op = name

\* an event record of a recognized type that has the fields of its type
Recognized(ev) ==
  /\ {"t", "type"} \subseteq DOMAIN ev
  /\ \/ ev.type = "move" /\ {"x", "y"} \subseteq DOMAIN ev
     \/ ev.type = "click" /\ {"x", "y", "button", "pressed"} \subseteq DOMAIN ev
     \/ ev.type = "scroll" /\ {"x", "y", "dx", "dy"} \subseteq DOMAIN ev
     \/ ev.type = "key" /\ {"action", "kind", "key"} \subseteq DOMAIN ev
WellFormedFile(c) ==
  c.kind = "array" /\ \A i \in DOMAIN c.items : Recognized(LoadObj(c.items[i]))

\* C18: Macro.load of content that is no well-formed sequence of recognized event
\* records (no JSON, JSON that is no sequence, a sequence with an unrecognized or
\* incomplete record) raises and leaves the event sequence as it was.
C18_LoadRejectsIllFormed ==
  [][(IOStep("load") /\ ~WellFormedFile(lastIO'.src)) =>
       (lastIO'.raised /\ events' = events)]_vars

====
